---- MODULE Spec2Model ----
(***************************************************************************)
(* A model of repolinter's FileSystem class (lib/file_system.js): the      *)
(* directory-scoped accessor with its glob based discovery, its content    *)
(* I/O and its bounded line reader.                                        *)
(*                                                                         *)
(* Paths are sequences of segment names, path strings are sequences of     *)
(* one-token characters, file contents are sequences of bytes and decoded  *)
(* text is a sequence of code points.                                      *)
(***************************************************************************)
EXTENDS Integers, Sequences, FiniteSets, TLC

VARIABLES
  platform,     \* process.platform, read by normalizePath
  targetDir,    \* this.targetDir
  filterPaths,  \* this.filterPaths
  fsys,         \* the file system under targetDir: key -> entry
  call,         \* the getFileLines calls in flight: id -> frame
  last,         \* the operation that completed last, with its outcome
  removed       \* locations unlinked by removeFile and not written since

vars == <<platform, targetDir, filterPaths, fsys, call, last, removed>>

----------------------------------------------------------------------------
\* Bounds of the model.

\* the longest file content, in bytes, of the line reader's files
MaxLen == 4
\* the largest lineCount asked of getFileLines
MaxLines == 2
\* the chunk size of getFileLines (1024 in the source), scaled down so that
\* files longer than one chunk stay small
bufferSize == 2

Min(a, b) == IF a < b THEN a ELSE b
Max(a, b) == IF a > b THEN a ELSE b

----------------------------------------------------------------------------
\* Bytes and text.

\* '\n', as a byte and as a code point
NL == 10

\* The bytes files are made of: 'a', '\n' and the two bytes of U+00E9.
Bytes == {97, NL, 195, 169}

\* buffer.toString('utf8', start, end) and readFile(file, 'utf8'): UTF-8
\* decoding of a byte range on its own. A lead byte without its continuation
\* byte and a continuation byte without its lead each decode to U+FFFD.
RECURSIVE Utf8Decode(_)
Utf8Decode(b) ==
  IF b = <<>> THEN <<>>
  ELSE IF b[1] = 195
    THEN IF Len(b) >= 2 /\ b[2] = 169
         THEN <<233>> \o Utf8Decode(SubSeq(b, 3, Len(b)))
         ELSE <<65533>> \o Utf8Decode(Tail(b))
  ELSE IF b[1] = 169 THEN <<65533>> \o Utf8Decode(Tail(b))
  ELSE <<b[1]>> \o Utf8Decode(Tail(b))

\* Buffer.from(string, 'utf8'), as writeFile encodes its string argument
RECURSIVE Utf8Encode(_)
Utf8Encode(t) ==
  IF t = <<>> THEN <<>>
  ELSE IF t[1] = 233 THEN <<195, 169>> \o Utf8Encode(Tail(t))
  ELSE IF t[1] = 65533 THEN <<239, 191, 189>> \o Utf8Encode(Tail(t))
  ELSE <<t[1]>> \o Utf8Encode(Tail(t))

\* String.prototype.indexOf(ch, from), 1-based; 0 when there is none
IndexOf(s, ch, from) ==
  IF \E i \in from..Len(s) : s[i] = ch
  THEN CHOOSE i \in from..Len(s) : s[i] = ch /\ \A j \in from..(i - 1) : s[j] # ch
  ELSE 0

SeqsUpTo(S, n) == UNION {[1..k -> S] : k \in 0..n}

\* file contents that are well-formed UTF-8
ValidContents == {b \in SeqsUpTo(Bytes, MaxLen) : \A i \in 1..Len(Utf8Decode(b)) : Utf8Decode(b)[i] # 65533}

----------------------------------------------------------------------------
\* The file system.

Keys == { <<"L">>, <<"k">>, <<"d">>, <<"d", "m">>, <<"e">>, <<"ENOENT">>,
          <<"p">>, <<"p", "s">>, <<"x">> }

NoEntry == [kind |-> "none", content |-> <<>>, target |-> <<>>, mode |-> "ok"]
FileEntry(c) == [kind |-> "file", content |-> c, target |-> <<>>, mode |-> "ok"]
LockedFile(c) == [kind |-> "file", content |-> c, target |-> <<>>, mode |-> "noperm"]
DirEntry(m) == [kind |-> "dir", content |-> <<>>, target |-> <<>>, mode |-> m]
LinkEntry(t) == [kind |-> "link", content |-> <<>>, target |-> t, mode |-> "ok"]

\* The repository the accessor is pointed at: a file L, a link k to it, a
\* directory d holding the file d/m, a link e to that directory, an unreadable
\* file whose name is ENOENT, and a directory p that may not be searched.
Tree(c) ==
  [k \in Keys |->
     CASE k = <<"L">> -> FileEntry(c)
       [] k = <<"k">> -> LinkEntry(<<"L">>)
       [] k = <<"d">> -> DirEntry("ok")
       [] k = <<"d", "m">> -> FileEntry(<<0>>)
       [] k = <<"e">> -> LinkEntry(<<"d">>)
       [] k = <<"ENOENT">> -> LockedFile(<<97>>)
       [] k = <<"p">> -> DirEntry("noperm")
       [] k = <<"p", "s">> -> FileEntry(<<97>>)
       [] OTHER -> NoEntry]

\* Path resolution by the operating system, from the directory `cur` along the
\* segments `rest`; `follow` says whether a link in the last place is followed.
RECURSIVE Walk(_, _, _, _)
Walk(fs, cur, rest, follow) ==
  IF rest = <<>> THEN [err |-> "OK", key |-> cur, leaf |-> TRUE]
  ELSE IF cur # <<>> /\ fs[cur].mode = "noperm"
    THEN [err |-> "EACCES", key |-> cur, leaf |-> FALSE]
  ELSE LET k == Append(cur, Head(rest)) IN
    IF k \notin Keys \/ fs[k].kind = "none"
      THEN [err |-> "ENOENT", key |-> k, leaf |-> Len(rest) = 1]
    ELSE IF fs[k].kind = "link" /\ (follow \/ Len(rest) > 1)
      THEN Walk(fs, <<>>, fs[k].target \o Tail(rest), follow)
    ELSE IF fs[k].kind = "file" /\ Len(rest) > 1
      THEN [err |-> "ENOTDIR", key |-> k, leaf |-> FALSE]
    ELSE Walk(fs, k, Tail(rest), follow)

\* fs.promises.access(file, F_OK): the error code, or "OK"
Access(fs, rel) == Walk(fs, <<>>, rel, TRUE).err

\* fs.promises.open(file, 'r'): a directory opens for reading, and fails at
\* the first read
OpenRead(fs, rel) ==
  LET w == Walk(fs, <<>>, rel, TRUE) IN
  IF w.err # "OK" THEN w
  ELSE IF w.key # <<>> /\ fs[w.key].kind = "file" /\ fs[w.key].mode = "noperm"
    THEN [w EXCEPT !.err = "EACCES"]
  ELSE w

\* fs.promises.readFile(file): the error code and the bytes
ReadFile(fs, rel) ==
  LET w == OpenRead(fs, rel) IN
  IF w.err # "OK" THEN [err |-> w.err, bytes |-> <<>>]
  ELSE IF w.key = <<>> \/ fs[w.key].kind = "dir" THEN [err |-> "EISDIR", bytes |-> <<>>]
  ELSE [err |-> "OK", bytes |-> fs[w.key].content]

\* fs.promises.writeFile(file, data): the error code and the place written
WriteFile(fs, rel) ==
  LET w == Walk(fs, <<>>, rel, TRUE) IN
  IF w.err = "OK"
    THEN IF w.key = <<>> \/ fs[w.key].kind = "dir" THEN [err |-> "EISDIR", key |-> w.key]
         ELSE IF fs[w.key].mode = "noperm" THEN [err |-> "EACCES", key |-> w.key]
         ELSE [err |-> "OK", key |-> w.key]
  ELSE IF w.err = "ENOENT" /\ w.leaf /\ w.key \in Keys
    THEN [err |-> "OK", key |-> w.key]
  ELSE [err |-> w.err, key |-> w.key]

\* fs.promises.unlink(file): the error code and the place unlinked
Unlink(fs, rel) ==
  LET w == Walk(fs, <<>>, rel, FALSE) IN
  IF w.err # "OK" THEN [err |-> w.err, key |-> w.key]
  ELSE IF w.key = <<>> \/ fs[w.key].kind = "dir" THEN [err |-> "EISDIR", key |-> w.key]
  ELSE [err |-> "OK", key |-> w.key]

\* The message of a failed file system call: code, syscall and the path.
\* path.resolve(targetDir, rel) is targetDir followed by rel.
ErrMessage(code, syscall, dir, rel) == <<code, ": ", syscall, " '">> \o dir \o rel \o <<"'">>

\* String.prototype.includes, on the tokens of a message
Includes(msg, tok) == \E i \in 1..Len(msg) : msg[i] = tok

----------------------------------------------------------------------------
\* Outcomes of an operation, as its caller sees them.

Pending == [kind |-> "pending", val |-> <<>>, code |-> ""]
Value(v) == [kind |-> "value", val |-> v, code |-> ""]
Undefined == [kind |-> "undefined", val |-> <<>>, code |-> ""]
Throw(c) == [kind |-> "throw", val |-> <<>>, code |-> c]

----------------------------------------------------------------------------
\* getFileLines: the bounded line reader. One frame per call in flight; the
\* call is suspended at its awaits (the open, each chunk read), so each action
\* is the code that runs between two awaits.

CallIds == {1, 2}

IdleFrame ==
  [pc |-> "idle", rel |-> <<>>, lineCount |-> 0, fd |-> "none", node |-> <<>>,
   orphan |-> FALSE, odata |-> <<>>, pos |-> 0, reads |-> <<>>,
   leftOver |-> <<>>, lines |-> <<>>, lineNumber |-> 0, ret |-> Pending]

\* The inner while loop over the newlines of leftOver, from idxStart on:
\* whether it returned from getFileLines, and the locals it leaves behind.
RECURSIVE ScanNoStop(_, _, _, _, _)
ScanNoStop(leftOver, idxStart, lines, lineNumber, lineCount) ==
  LET idx == IndexOf(leftOver, NL, idxStart) IN
  IF idx = 0
    THEN [returned |-> FALSE, lines |-> lines, lineNumber |-> lineNumber,
          leftOver |-> SubSeq(leftOver, idxStart, Len(leftOver))]
    ELSE ScanNoStop(leftOver, idx + 1,
                    IF lineNumber < lineCount
                      THEN lines \o SubSeq(leftOver, idxStart, idx - 1) \o <<NL>>
                      ELSE lines,
                    lineNumber + 1, lineCount)

RECURSIVE Scan(_, _, _, _, _)
Scan(leftOver, idxStart, lines, lineNumber, lineCount) ==
  LET idx == IndexOf(leftOver, NL, idxStart) IN
  IF idx = 0
    THEN [returned |-> FALSE, lines |-> lines, lineNumber |-> lineNumber,
          leftOver |-> SubSeq(leftOver, idxStart, Len(leftOver))]
    ELSE LET n == lineNumber + 1
             ls == lines \o SubSeq(leftOver, idxStart, idx - 1) \o <<NL>>
         IN IF n >= lineCount
              THEN [returned |-> TRUE, lines |-> ls, lineNumber |-> n, leftOver |-> leftOver]
              ELSE Scan(leftOver, idx + 1, ls, n, lineCount)

\* The catch block of the open: what the caller gets for an open that failed
\* with `code` on the path `rel`.
OpenFailure(code, dir, rel) ==
  IF Includes(ErrMessage(code, "open", dir, rel), "ENOENT") THEN Undefined ELSE Throw(code)

\* The bytes behind an open handle: those of the file it names, or those the
\* file had when it was unlinked under the handle.
ReadSource(c) == IF call[c].orphan THEN call[c].odata ELSE fsys[call[c].node].content

HandleIsDir(c) == ~call[c].orphan /\ fsys[call[c].node].kind = "dir"

\* getFileLines(rel, n) up to its first chunk read: the open and its catch
\* block, then the locals.
GflOpen(c, rel, n) ==
  /\ call[c].pc = "idle"
  /\ LET w == OpenRead(fsys, rel) IN
     call' = [call EXCEPT ![c] =
       IF w.err # "OK"
         THEN [IdleFrame EXCEPT !.pc = "done", !.rel = rel, !.lineCount = n,
                                !.ret = OpenFailure(w.err, targetDir, rel)]
         ELSE [IdleFrame EXCEPT !.pc = "read", !.rel = rel, !.lineCount = n,
                                !.fd = "open", !.node = w.key]]
  /\ UNCHANGED <<platform, targetDir, filterPaths, fsys, last, removed>>

\* GflRead with leftOver declared once for the module instead of per call:
\* every frame sees the text this call left over.
GflReadShared(c) ==
  /\ call[c].pc = "read"
  /\ ~HandleIsDir(c)
  /\ LET src == ReadSource(c)
         f == call[c]
         rest == Max(0, Len(src) - f.pos)
     IN \E got \in (IF rest = 0 THEN {0} ELSE 1..Min(bufferSize, rest)) :
          LET text == Utf8Decode(SubSeq(src, f.pos + 1, f.pos + got))
              r == Scan(f.leftOver \o text, 1, f.lines, f.lineNumber, f.lineCount)
              g == [f EXCEPT !.pos = f.pos + got, !.reads = Append(f.reads, got)]
          IN call' = [d \in CallIds |-> IF d # c THEN [call[d] EXCEPT !.leftOver = r.leftOver] ELSE
               IF got = 0
                 THEN [g EXCEPT !.pc = "done", !.fd = "closing", !.ret = Value(f.lines)]
               ELSE IF r.returned
                 THEN [g EXCEPT !.pc = "done", !.fd = "closing", !.leftOver = r.leftOver,
                                !.lines = r.lines, !.lineNumber = r.lineNumber,
                                !.ret = Value(r.lines)]
               ELSE [g EXCEPT !.leftOver = r.leftOver, !.lines = r.lines,
                              !.lineNumber = r.lineNumber]]
  /\ UNCHANGED <<platform, targetDir, filterPaths, fsys, last, removed>>

\* One turn of the outer loop: a chunk read that succeeds with `got` bytes
\* (fewer than bufferSize is allowed), the scan of the rolling buffer, and
\* the return when the read is empty or the N-th line is found.
GflRead(c) ==
  /\ call[c].pc = "read"
  /\ ~HandleIsDir(c)
  /\ LET src == ReadSource(c)
         f == call[c]
         rest == Max(0, Len(src) - f.pos)
     IN \E got \in (IF rest = 0 THEN {0} ELSE 1..Min(bufferSize, rest)) :
          LET text == Utf8Decode(SubSeq(src, f.pos + 1, f.pos + got))
              r == Scan(f.leftOver \o text, 1, f.lines, f.lineNumber, f.lineCount)
              g == [f EXCEPT !.pos = f.pos + got, !.reads = Append(f.reads, got)]
          IN call' = [call EXCEPT ![c] =
               IF got = 0
                 THEN [g EXCEPT !.pc = "done", !.fd = "closing", !.ret = Value(f.lines)]
               ELSE IF r.returned
                 THEN [g EXCEPT !.pc = "done", !.fd = "closing", !.leftOver = r.leftOver,
                                !.lines = r.lines, !.lineNumber = r.lineNumber,
                                !.ret = Value(r.lines)]
               ELSE [g EXCEPT !.leftOver = r.leftOver, !.lines = r.lines,
                              !.lineNumber = r.lineNumber]]
  /\ UNCHANGED <<platform, targetDir, filterPaths, fsys, last, removed>>

\* A chunk read that fails: EISDIR when the handle is a directory's, an I/O
\* error otherwise. Nothing catches it: the call rejects where it stands.
GflReadFail(c) ==
  /\ call[c].pc = "read"
  /\ call' = [call EXCEPT ![c].pc = "done",
                          ![c].ret = Throw(IF HandleIsDir(c) THEN "EISDIR" ELSE "EIO")]
  /\ UNCHANGED <<platform, targetDir, filterPaths, fsys, last, removed>>

\* fd.close() is not awaited: the close completes after the call returned.
FdClosed(c) ==
  /\ call[c].fd = "closing"
  /\ call' = [call EXCEPT ![c].fd = "closed"]
  /\ UNCHANGED <<platform, targetDir, filterPaths, fsys, last, removed>>

\* The paths getFileLines is called on: a file, a link to it, a missing path,
\* a directory, an unreadable file, a path through a file.
LinePaths == { <<"L">>, <<"k">>, <<"x">>, <<"d">>, <<"ENOENT">>, <<"p", "s">>, <<"L", "m">> }

NoOp == [op |-> "none", arg |-> <<>>, out |-> Pending]

InitLines ==
  /\ platform = "posix"
  /\ targetDir = <<"r">>
  /\ filterPaths = <<>>
  /\ \E c \in ValidContents : fsys = Tree(c)
  /\ call = [c \in CallIds |-> IdleFrame]
  /\ last = NoOp
  /\ removed = {}

NextLines ==
  \/ \E rel \in LinePaths, n \in 1..MaxLines : GflOpen(1, rel, n)
  \/ GflRead(1)
  \/ GflReadFail(1)
  \/ FdClosed(1)

SpecLines == InitLines /\ [][NextLines]_vars

----------------------------------------------------------------------------
\* Existence checks, binary detection and content I/O. Each is one request
\* to the file system, and its outcome is recorded in `last`.

\* path.resolve(this.targetDir, file) and path.relative(this.targetDir, abs)
\* on segment sequences
Resolve(dir, rel) == dir \o rel
Relative(dir, abs) == SubSeq(abs, Len(dir) + 1, Len(abs))
Under(dir, abs) == Len(abs) >= Len(dir) /\ SubSeq(abs, 1, Len(dir)) = dir

\* the promise of fs.promises.access(file, F_OK)
AccessProbe(fs, dir, abs) ==
  LET code == IF Under(dir, abs) THEN Access(fs, Relative(dir, abs)) ELSE "ENOENT"
  IN IF code = "OK" THEN Value(TRUE) ELSE Throw(code)

\* what a try block around `p` gives, `handled` being what its catch block
\* makes of a rejection: the catch block sees a rejection of `p` only when the
\* try block awaits it; `return p` hands the promise, and with it the
\* rejection, to the caller
TryCatch(p, awaited, handled) ==
  IF p.kind = "throw" /\ awaited THEN handled ELSE p

fileExistsNoCatch(fs, dir, file) ==
  LET p == AccessProbe(fs, dir, file) IN IF p.kind = "throw" THEN p ELSE Value(TRUE)

\* static fileExists(file): access(...).then(() => true).catch(() => false)
fileExists(fs, dir, file) ==
  LET p == AccessProbe(fs, dir, file) IN IF p.kind = "throw" THEN Value(FALSE) ELSE Value(TRUE)

relativeFileExists(fs, dir, file) == fileExists(fs, dir, Resolve(dir, file))

\* isbinaryfile's probe of a path: it stats the path, refuses what is no
\* file, and looks for a NUL among the leading bytes
BinaryProbe(fs, rel) ==
  LET r == ReadFile(fs, rel) IN
  IF r.err = "EISDIR" THEN Throw("not a file")
  ELSE IF r.err # "OK" THEN Throw(r.err)
  ELSE Value(\E i \in 1..Len(r.bytes) : r.bytes[i] = 0)

\* the catch block of isBinaryFile
BinaryCatch(dir, rel, e) ==
  IF Includes(ErrMessage(e.code, "stat", dir, rel), "ENOENT") THEN Value(FALSE) ELSE e

\* isBinaryFile(relativeFile): the probe's promise is returned, not awaited
isBinaryFile(fs, dir, rel) ==
  TryCatch(BinaryProbe(fs, rel), FALSE, BinaryCatch(dir, rel, BinaryProbe(fs, rel)))

\* the promise of fs.promises.readFile(file, 'utf8')
ReadText(fs, rel) ==
  LET r == ReadFile(fs, rel) IN
  IF r.err = "OK" THEN Value(Utf8Decode(r.bytes)) ELSE Throw(r.err)

getFileContentsNoAwait(fs, dir, rel) ==
  TryCatch(ReadText(fs, rel), FALSE, Undefined)

\* getFileContents(relativeFile): the read is awaited inside the try block
getFileContents(fs, dir, rel) ==
  TryCatch(ReadText(fs, rel), TRUE, Undefined)

Record(op, arg, out) == last' = [op |-> op, arg |-> arg, out |-> out]

FileExistsOp(rel) ==
  /\ Record("fileExists", rel, fileExists(fsys, targetDir, Resolve(targetDir, rel)))
  /\ UNCHANGED <<platform, targetDir, filterPaths, fsys, call, removed>>

RelativeFileExistsOp(rel) ==
  /\ Record("relativeFileExists", rel, relativeFileExists(fsys, targetDir, rel))
  /\ UNCHANGED <<platform, targetDir, filterPaths, fsys, call, removed>>

IsBinaryFileOp(rel) ==
  /\ Record("isBinaryFile", rel, isBinaryFile(fsys, targetDir, rel))
  /\ UNCHANGED <<platform, targetDir, filterPaths, fsys, call, removed>>

GetFileContentsOp(rel) ==
  /\ Record("getFileContents", rel, getFileContents(fsys, targetDir, rel))
  /\ UNCHANGED <<platform, targetDir, filterPaths, fsys, call, removed>>

\* setFileContents(relativeFile, contents): writeFile creates or truncates
\* the file the path leads to; a failure is the caller's
SetFileContentsOp(rel, contents) ==
  LET w == WriteFile(fsys, rel) IN
  /\ Record("setFileContents", rel, IF w.err = "OK" THEN Undefined ELSE Throw(w.err))
  /\ fsys' = IF w.err = "OK" THEN [fsys EXCEPT ![w.key] = FileEntry(Utf8Encode(contents))]
             ELSE fsys
  /\ removed' = IF w.err = "OK" THEN removed \ {w.key} ELSE removed
  /\ UNCHANGED <<platform, targetDir, filterPaths, call>>

\* the file system after the unlink of `key`
Unlinked(fs, key) == [fs EXCEPT ![key] = NoEntry]

\* removeFile(relativeFile): unlink removes the name; a handle open on the
\* file keeps its bytes
RemoveFileOp(rel) ==
  LET u == Unlink(fsys, rel) IN
  /\ Record("removeFile", rel, IF u.err = "OK" THEN Undefined ELSE Throw(u.err))
  /\ fsys' = IF u.err = "OK" THEN Unlinked(fsys, u.key) ELSE fsys
  /\ removed' = IF u.err = "OK" THEN removed \cup {u.key} ELSE removed
  /\ call' = [c \in CallIds |->
               IF u.err = "OK" /\ call[c].fd = "open" /\ ~call[c].orphan /\ call[c].node = u.key
                 THEN [call[c] EXCEPT !.orphan = TRUE, !.odata = fsys[u.key].content]
                 ELSE call[c]]
  /\ UNCHANGED <<platform, targetDir, filterPaths>>

\* The paths the I/O operations are called on: every entry of the tree, a
\* path through the link to a directory, and a path through a file.
IOPaths == Keys \cup { <<"e", "m">>, <<"L", "m">> }

\* the text setFileContents writes
Texts == { <<97, NL>> }

InitIO ==
  /\ platform = "posix"
  /\ targetDir = <<"r">>
  /\ filterPaths = <<>>
  /\ fsys = Tree(<<97, NL, 195, 169>>)
  /\ call = [c \in CallIds |-> IdleFrame]
  /\ last = NoOp
  /\ removed = {}

NextIO ==
  \E rel \in IOPaths :
    \/ FileExistsOp(rel)
    \/ RelativeFileExistsOp(rel)
    \/ IsBinaryFileOp(rel)
    \/ GetFileContentsOp(rel)
    \/ \E t \in Texts : SetFileContentsOp(rel, t)
    \/ RemoveFileOp(rel)

SpecIO == InitIO /\ [][NextIO]_vars

----------------------------------------------------------------------------
\* Path strings. A path string is a sequence of tokens: the separators "/"
\* and "\\", the segments "." and "..", and the characters of names.

PathSep(plat) == IF plat = "win32" THEN "\\" ELSE "/"
Seps(plat) == IF plat = "win32" THEN {"/", "\\"} ELSE {"/"}

\* String.prototype.split on any of `seps`
RECURSIVE Split(_, _)
Split(str, seps) ==
  IF \A i \in 1..Len(str) : str[i] \notin seps THEN <<str>>
  ELSE LET i == CHOOSE j \in 1..Len(str) :
                  str[j] \in seps /\ \A h \in 1..(j - 1) : str[h] \notin seps
       IN <<SubSeq(str, 1, i - 1)>> \o Split(SubSeq(str, i + 1, Len(str)), seps)

\* Array.prototype.join
RECURSIVE Join(_, _)
Join(segs, sep) ==
  IF segs = <<>> THEN <<>>
  ELSE IF Len(segs) = 1 THEN segs[1]
  ELSE segs[1] \o <<sep>> \o Join(Tail(segs), sep)

StartsWith(str, prefix) ==
  Len(prefix) <= Len(str) /\ SubSeq(str, 1, Len(prefix)) = prefix

\* a path of the tree as segments, and back
NameSegs(path) == [i \in 1..Len(path) |-> <<path[i]>>]
SegName(seg) == IF Len(seg) = 1 THEN seg[1] ELSE "?"
SegNames(segs) == [i \in 1..Len(segs) |-> SegName(segs[i])]

\* normalizePath(filepath): filepath.split(path.sep).join('/') on win32
normalizePath(plat, filepath) ==
  IF plat = "win32" THEN Join(Split(filepath, {"\\"}), "/") ELSE filepath

\* path.resolve(dir, filePath), as the segments of the absolute path
RECURSIVE ResolveSegs(_, _)
ResolveSegs(stack, segs) ==
  IF segs = <<>> THEN stack
  ELSE LET sg == Head(segs) IN
    ResolveSegs(IF sg = <<>> \/ sg = <<".">> THEN stack
                ELSE IF sg = <<"..">>
                  THEN (IF stack = <<>> THEN stack ELSE SubSeq(stack, 1, Len(stack) - 1))
                ELSE Append(stack, sg),
                Tail(segs))

PathResolve(plat, dir, filePath) ==
  ResolveSegs(IF Len(filePath) > 0 /\ filePath[1] \in Seps(plat) THEN <<>> ELSE NameSegs(dir),
              Split(filePath, Seps(plat)))

\* path.relative(from, to) on the segments of two absolute paths
PathRelative(plat, from, to) ==
  LET Common(n) == n <= Len(from) /\ n <= Len(to) /\ SubSeq(from, 1, n) = SubSeq(to, 1, n)
      c == CHOOSE n \in 0..Len(from) : Common(n) /\ ~Common(n + 1)
  IN Join([i \in 1..(Len(from) - c) |-> <<"..">>] \o SubSeq(to, c + 1, Len(to)), PathSep(plat))

shouldIncludeRawFilter(plat, dir, filters, filePath) ==
  IF Len(filters) = 0 THEN TRUE
  ELSE LET resolvedPath ==
             normalizePath(plat, PathRelative(plat, NameSegs(dir), PathResolve(plat, dir, filePath)))
       IN \E i \in 1..Len(filters) : StartsWith(resolvedPath, filters[i])

\* shouldInclude(filePath)
shouldInclude(plat, dir, filters, filePath) ==
  IF Len(filters) = 0 THEN TRUE
  ELSE LET resolvedPath ==
             normalizePath(plat, PathRelative(plat, NameSegs(dir), PathResolve(plat, dir, filePath)))
       IN \E i \in 1..Len(filters) : StartsWith(resolvedPath, normalizePath(plat, filters[i]))

----------------------------------------------------------------------------
\* The glob engine behind require('matched'): node-glob's walk of the tree.
\* It answers with the matching paths and fills options.symlinks, its cache
\* of the paths it had to lstat, which are the directories-to-be it reads
\* below a "**".
\*
\* An intermediate result that is used more than once is bound by a
\* quantifier over a one-element set, which evaluates it once.

Names == {k[Len(k)] : k \in Keys}

\* the order in which the engine lists the paths of the tree
Listing == << <<"ENOENT">>, <<"L">>, <<"d">>, <<"d", "m">>, <<"e">>, <<"e", "m">>,
              <<"k">>, <<"p">>, <<"p", "s">>, <<"x">> >>

KindOf(fs, w) == IF w.err # "OK" THEN "none" ELSE IF w.key = <<>> THEN "dir" ELSE fs[w.key].kind

\* fs.readdir(path): the names in a directory that can be read
Readdir(fs, path) ==
  LET w == Walk(fs, <<>>, path, TRUE) IN
  IF KindOf(fs, w) = "dir" /\ (w.key = <<>> \/ fs[w.key].mode = "ok")
    THEN [ok |-> TRUE,
          names |-> {n \in Names : Append(w.key, n) \in Keys /\ fs[Append(w.key, n)].kind # "none"}]
    ELSE [ok |-> FALSE, names |-> {}]

\* Glob.prototype._readdir(abs, inGlobStar): inside a "**" the path is
\* lstat'ed first, and recorded in symlinks when it is a link
GlobReaddir(fs, path, inGlobStar) ==
  LET l == Walk(fs, <<>>, path, FALSE)
      rd == Readdir(fs, path)
  IN IF ~inGlobStar THEN [ok |-> rd.ok, names |-> rd.names, links |-> {}]
     ELSE IF l.err = "ENOENT" THEN [ok |-> FALSE, names |-> {}, links |-> {}]
     ELSE [ok |-> rd.ok, names |-> rd.names,
           links |-> IF KindOf(fs, l) = "link" THEN {path} ELSE {}]

\* minimatch of one pattern segment against a name; "\\" escapes
Unescape(seg) ==
  LET Keep(t) == t # "\\" IN SelectSeq(seg, Keep)
Lower(t) == IF t = "L" THEN "l" ELSE IF t = "ENOENT" THEN "enoent" ELSE t
SegMatch(seg, name, nocase) ==
  \/ seg = <<"*">>
  \/ SegName(Unescape(seg)) = name
  \/ nocase /\ Lower(SegName(Unescape(seg))) = Lower(name)

\* Glob.prototype._process(pattern, index, inGlobStar): the matches below
\* `prefix` of the pattern segments `remain`, tagged "m", and the links
\* recorded on the way, tagged "l"
Tagged(tag, S) == {<<tag, x>> : x \in S}

RECURSIVE Process(_, _, _, _, _)
Process(fs, prefix, remain, inGlobStar, nocase) ==
  IF remain = <<>>
    THEN IF Walk(fs, <<>>, prefix, FALSE).err = "OK" THEN {<<"m", prefix>>} ELSE {}
  ELSE IF Head(remain) # <<"**">> /\ Head(remain) # <<"*">> /\ ~nocase
    THEN Process(fs, Append(prefix, SegName(Unescape(Head(remain)))), Tail(remain), inGlobStar, nocase)
  ELSE UNION {
    IF Head(remain) = <<"**">>
      THEN IF ~rd.ok THEN Tagged("l", rd.links)
           ELSE IF inGlobStar /\ prefix \in rd.links
             THEN Process(fs, prefix, Tail(remain), FALSE, nocase) \cup Tagged("l", rd.links)
           ELSE Process(fs, prefix, Tail(remain), FALSE, nocase) \cup Tagged("l", rd.links)
                  \cup UNION {Process(fs, Append(prefix, n), Tail(remain), TRUE, nocase) : n \in rd.names}
                  \cup UNION {Process(fs, Append(prefix, n), remain, TRUE, nocase) : n \in rd.names}
      ELSE Tagged("l", rd.links)
             \cup UNION {Process(fs, Append(prefix, n), Tail(remain), inGlobStar, nocase) :
                           n \in {x \in rd.names : SegMatch(Head(remain), x, nocase)}}
    : rd \in {GlobReaddir(fs, prefix, inGlobStar)} }

\* the one element of a set of one element
The(S) == CHOOSE x \in S : TRUE

\* one pattern: the matches in listing order, directories dropped under
\* nodir, and the absolute paths recorded as links
GlobOne(fs, dir, pattern, options) ==
  The({ LET Kept(path) == /\ <<"m", path>> \in r
                          /\ ~(options.nodir /\ KindOf(fs, Walk(fs, <<>>, path, TRUE)) = "dir")
        IN [paths |-> SelectSeq(Listing, Kept),
            links |-> {Resolve(dir, t[2]) : t \in {x \in r : x[1] = "l"}}]
        : r \in {Process(fs, <<>>, Split(pattern, {"/"}), FALSE, options.nocase)} })

\* matched(patterns, options): the patterns in turn, each path once
RECURSIVE Matched(_, _, _, _)
Matched(fs, dir, patterns, options) ==
  IF patterns = <<>> THEN [paths |-> <<>>, links |-> {}]
  ELSE The({ LET Fresh(path) == \A i \in 1..Len(pair[1].paths) : pair[1].paths[i] # path
             IN [paths |-> pair[1].paths \o SelectSeq(pair[2].paths, Fresh),
                 links |-> pair[1].links \cup pair[2].links]
             : pair \in {<<Matched(fs, dir, SubSeq(patterns, 1, Len(patterns) - 1), options),
                           GlobOne(fs, dir, patterns[Len(patterns)], options)>>} })

\* the strings the engine answers with: relative, "/" separated
PathString(path) == Join(NameSegs(path), "/")

----------------------------------------------------------------------------
\* Discovery. `globs` is the list of patterns; a single pattern string is the
\* list of that one pattern.

\* glob(globs, options): the paths, and options.symlinks as the engine left it
glob(plat, dir, filters, fs, globs, options) ==
  The({ LET Inc(str) == shouldInclude(plat, dir, filters, str)
        IN [paths |-> SelectSeq([i \in 1..Len(r.paths) |-> normalizePath(plat, PathString(r.paths[i]))], Inc),
            symlinks |-> r.links]
        : r \in {Matched(fs, dir, [i \in 1..Len(globs) |-> normalizePath(plat, globs[i])], options)} })

\* findAll(globs, nocase)
findAll(plat, dir, filters, fs, globs, nocase) ==
  LET fixedGlobs == [i \in 1..Len(globs) |-> normalizePath(plat, globs[i])]
  IN glob(plat, dir, filters, fs, fixedGlobs, [nocase |-> nocase, nodir |-> FALSE]).paths

\* findAllFiles(globs, nocase)
findAllFiles(plat, dir, filters, fs, globs, nocase) ==
  The({ LET onlySymlinks ==
              {normalizePath(plat, PathRelative(plat, NameSegs(dir), NameSegs(fullPath))) :
                 fullPath \in g.symlinks}
            NoLink(filePath) == normalizePath(plat, filePath) \notin onlySymlinks
        IN SelectSeq(g.paths, NoLink)
        : g \in {glob(plat, dir, filters, fs, globs, [nocase |-> nocase, nodir |-> TRUE])} })

\* findFirst and findFirstFile: allFiles[0], or nothing
First(allFiles) == IF Len(allFiles) > 0 THEN Value(allFiles[1]) ELSE Undefined
findFirst(plat, dir, filters, fs, globs, nocase) ==
  First(findAll(plat, dir, filters, fs, globs, nocase))
findFirstFile(plat, dir, filters, fs, globs, nocase) ==
  First(findAllFiles(plat, dir, filters, fs, globs, nocase))

FindAllOp(globs, nocase) ==
  /\ Record("findAll", <<globs, nocase>>,
            Value(findAll(platform, targetDir, filterPaths, fsys, globs, nocase)))
  /\ UNCHANGED <<platform, targetDir, filterPaths, fsys, call, removed>>

FindAllFilesOp(globs, nocase) ==
  /\ Record("findAllFiles", <<globs, nocase>>,
            Value(findAllFiles(platform, targetDir, filterPaths, fsys, globs, nocase)))
  /\ UNCHANGED <<platform, targetDir, filterPaths, fsys, call, removed>>

FindFirstOp(globs, nocase) ==
  /\ Record("findFirst", <<globs, nocase>>,
            findFirst(platform, targetDir, filterPaths, fsys, globs, nocase))
  /\ UNCHANGED <<platform, targetDir, filterPaths, fsys, call, removed>>

FindFirstFileOp(globs, nocase) ==
  /\ Record("findFirstFile", <<globs, nocase>>,
            findFirstFile(platform, targetDir, filterPaths, fsys, globs, nocase))
  /\ UNCHANGED <<platform, targetDir, filterPaths, fsys, call, removed>>

GlobOp(globs, options) ==
  /\ Record("glob", <<globs, options>>,
            Value(glob(platform, targetDir, filterPaths, fsys, globs, options).paths))
  /\ UNCHANGED <<platform, targetDir, filterPaths, fsys, call, removed>>

ShouldIncludeOp(filePath) ==
  /\ Record("shouldInclude", filePath,
            Value(shouldInclude(platform, targetDir, filterPaths, filePath)))
  /\ UNCHANGED <<platform, targetDir, filterPaths, fsys, call, removed>>

\* The patterns asked for: **/*, *, k, d/*, **/m, e/*, l, and d\* as a
\* Windows caller writes d/*.
Patterns == { <<"**", "/", "*">>, <<"*">>, <<"k">>, <<"d", "/", "*">>, <<"**", "/", "m">>,
              <<"e", "/", "*">>, <<"l">>, <<"d", "\\", "*">> }

GlobLists == {<<g>> : g \in Patterns} \cup { << <<"k">>, <<"*">> >>, << <<"d", "/", "*">>, <<"**", "/", "*">> >> }

\* The filter lists an accessor is built with: none, d, d/, d\m, and L with d/m.
Filters == { <<>>, << <<"d">> >>, << <<"d", "/">> >>, << <<"d", "\\", "m">> >>,
             << <<"L">>, <<"d", "/", "m">> >> }

\* The candidate paths shouldInclude is asked about.
Candidates == { <<"L">>, <<"d">>, <<"d", "/", "m">>, <<"d", "m", "/", "x">>, <<".", "/", "d", "/", "m">>,
                <<"d", "/", "..", "/", "L">>, <<"x", "/", "d">>, <<"d", "\\", "m">>,
                <<"..", "/", "r", "/", "d">>, <<"..", "/", "d">> }

InitFind ==
  /\ platform \in {"posix", "win32"}
  /\ targetDir = <<"r">>
  /\ filterPaths \in Filters
  /\ fsys = Tree(<<97, NL>>)
  /\ call = [c \in CallIds |-> IdleFrame]
  /\ last = NoOp
  /\ removed = {}

NextFind ==
  \/ \E globs \in GlobLists, nocase \in BOOLEAN :
       \/ FindAllOp(globs, nocase)
       \/ FindAllFilesOp(globs, nocase)
       \/ FindFirstOp(globs, nocase)
       \/ FindFirstFileOp(globs, nocase)
       \/ \E nodir \in BOOLEAN : GlobOp(globs, [nocase |-> nocase, nodir |-> nodir])
  \/ \E filePath \in Candidates : ShouldIncludeOp(filePath)

SpecFind == InitFind /\ [][NextFind]_vars

----------------------------------------------------------------------------
\* One accessor used by concurrent callers: two getFileLines calls in flight
\* while the other operations are issued, each between any two of their
\* awaits.

AllPaths == { <<"L">> }
AllGlobs == { << <<"**", "/", "*">> >> }

InitAll ==
  /\ platform \in {"posix", "win32"}
  /\ targetDir = <<"r">>
  /\ filterPaths = << <<"d">> >>
  /\ fsys = Tree(<<97, NL>>)
  /\ call = [c \in CallIds |-> IdleFrame]
  /\ last = NoOp
  /\ removed = {}

NextAll ==
  \/ \E c \in CallIds :
       \/ \E rel \in AllPaths : GflOpen(c, rel, 1)
       \/ GflRead(c)
       \/ GflReadFail(c)
       \/ FdClosed(c)
  \/ \E rel \in AllPaths :
       \/ FileExistsOp(rel)
       \/ RelativeFileExistsOp(rel)
       \/ IsBinaryFileOp(rel)
       \/ GetFileContentsOp(rel)
       \/ \E t \in Texts : SetFileContentsOp(rel, t)
       \/ RemoveFileOp(rel)
  \/ \E globs \in AllGlobs :
       \/ FindAllOp(globs, FALSE)
       \/ FindAllFilesOp(globs, FALSE)
       \/ FindFirstOp(globs, FALSE)
       \/ FindFirstFileOp(globs, FALSE)
       \/ GlobOp(globs, [nocase |-> FALSE, nodir |-> FALSE])
  \/ ShouldIncludeOp(<<"d", "/", "m">>)

SpecAll == InitAll /\ [][NextAll]_vars

----------------------------------------------------------------------------
\* Properties of the line reader, on the calls that opened a file.

Newlines(s) == Cardinality({i \in 1..Len(s) : s[i] = NL})

\* the bytes of `s` up to and including its k-th newline
UpToNewline(s, k) ==
  IF k = 0 THEN <<>>
  ELSE SubSeq(s, 1, CHOOSE i \in 1..Len(s) : s[i] = NL /\ Newlines(SubSeq(s, 1, i)) = k)

Finished(c) == call[c].pc = "done"
OpenedFile(c) == call[c].fd # "none" /\ ~HandleIsDir(c)

\* C1: a call that opened a file and met no read failure returns the text of
\* the file up to and including its min(N, k)-th newline, k the number of
\* newlines of the file, however the chunk reads split the content.
C1_ReturnsLinePrefix ==
  \A c \in CallIds :
    (Finished(c) /\ OpenedFile(c) /\ call[c].ret.kind # "throw") =>
      call[c].ret = Value(Utf8Decode(UpToNewline(ReadSource(c),
                            Min(call[c].lineCount, Newlines(ReadSource(c))))))

\* C2: no call ends with its file handle still open.
C2_HandleReleased ==
  \A c \in CallIds : Finished(c) => call[c].fd # "open"

\* C6: the absent marker is the result of an open that failed because the
\* path does not exist, and of nothing else: every other failure of the open
\* and every failure of a read is raised.
C6_AbsentOnlyWhenMissing ==
  \A c \in CallIds :
    Finished(c) =>
      LET e == OpenRead(fsys, call[c].rel).err IN
        /\ (e = "ENOENT") => call[c].ret = Undefined
        /\ (e \notin {"OK", "ENOENT"}) => call[c].ret = Throw(e)
        /\ (e = "OK") => call[c].ret.kind \in {"value", "throw"}
        /\ (e = "OK" /\ HandleIsDir(c)) => call[c].ret = Throw("EISDIR")

\* C9: a chunk read is issued only while fewer than N lines were counted; a
\* call that returns lines has read up to the chunk holding the N-th newline
\* and no further, or, when the file has fewer than N newlines, to its end.
C9_StopsAtNthLine ==
  \A c \in CallIds :
    LET f == call[c]
        src == ReadSource(c)
        lastRead == f.reads[Len(f.reads)]
    IN OpenedFile(c) =>
         /\ f.pc = "read" =>
              /\ f.lineNumber < f.lineCount
              /\ Newlines(SubSeq(src, 1, f.pos)) = f.lineNumber
         /\ (Finished(c) /\ f.ret.kind = "value") =>
              IF Newlines(src) >= f.lineCount
                THEN /\ lastRead > 0
                     /\ Newlines(SubSeq(src, 1, f.pos)) >= f.lineCount
                     /\ Newlines(SubSeq(src, 1, f.pos - lastRead)) < f.lineCount
                ELSE f.pos = Len(src) /\ lastRead = 0

\* a call that returned after its second chunk, with bytes left unread
C9_Witness ==
  \E c \in CallIds :
    /\ Finished(c) /\ OpenedFile(c) /\ call[c].ret.kind = "value"
    /\ Len(call[c].reads) >= 2
    /\ call[c].pos < Len(ReadSource(c))

----------------------------------------------------------------------------
\* Properties of the existence checks, binary detection and content I/O.

\* C5: isBinaryFile answers false when its probe fails because the path does
\* not exist, and raises every other failure of the probe.
C5_MissingPathIsNotBinary ==
  last.op = "isBinaryFile" =>
    LET p == BinaryProbe(fsys, last.arg) IN
      /\ (p = Throw("ENOENT")) => last.out = Value(FALSE)
      /\ (p.kind = "throw" /\ p.code # "ENOENT") => last.out = p

\* C7: getFileContents never raises; it gives the decoded bytes of the file
\* when the read succeeds and the absent marker for every failure of the read.
C7_ContentsOrAbsent ==
  last.op = "getFileContents" =>
    LET r == ReadFile(fsys, last.arg) IN
      /\ last.out.kind \in {"value", "undefined"}
      /\ (r.err = "OK") => last.out = Value(Utf8Decode(r.bytes))
      /\ (r.err # "OK") => last.out = Undefined

\* getFileContents of a directory gave the absent marker
C7_Witness ==
  /\ last.op = "getFileContents"
  /\ ReadFile(fsys, last.arg).err = "EISDIR"
  /\ last.out = Undefined

\* the directory entry a path names
Location(rel) == Walk(fsys, <<>>, rel, FALSE).key

ExistsNow(rel) == fileExists(fsys, targetDir, Resolve(targetDir, rel))

\* the path leads to a file the process can reach
HoldsFile(rel) ==
  LET w == Walk(fsys, <<>>, rel, TRUE) IN
  w.err = "OK" /\ w.key # <<>> /\ fsys[w.key].kind = "file"

\* C8: fileExists never raises and agrees with relativeFileExists; it is true
\* of every path that holds a file, so before any removeFile of it, false
\* right after a removeFile that succeeds on the path, and false for as long
\* as the place unlinked is not written again.
C8_ExistsUntilRemoved ==
  /\ [](\A rel \in IOPaths :
          /\ ExistsNow(rel).kind = "value"
          /\ relativeFileExists(fsys, targetDir, rel) = ExistsNow(rel)
          /\ HoldsFile(rel) => ExistsNow(rel) = Value(TRUE)
          /\ (Location(rel) \in removed) => ExistsNow(rel) = Value(FALSE))
  /\ [][\A rel \in IOPaths :
          (last' # last /\ last' = [op |-> "removeFile", arg |-> rel, out |-> Undefined]) =>
             ExistsNow(rel)' = Value(FALSE)]_vars

\* a removeFile of the file L succeeded and fileExists was then asked of L
C8_Witness ==
  /\ <<"L">> \in removed
  /\ last = [op |-> "fileExists", arg |-> <<"L">>, out |-> Value(FALSE)]

----------------------------------------------------------------------------
\* Properties of discovery and of the inclusion filter.

\* the path of the tree a returned string names
PathOfString(str) == SegNames(Split(str, {"/"}))
IsSymlink(str) == KindOf(fsys, Walk(fsys, <<>>, PathOfString(str), FALSE)) = "link"

\* C3: no path returned by findAllFiles, and so none returned by
\* findFirstFile, is a symbolic link.
C3_NoSymlinkReturned ==
  /\ last.op = "findAllFiles" =>
       \A i \in 1..Len(last.out.val) : ~IsSymlink(last.out.val[i])
  /\ (last.op = "findFirstFile" /\ last.out.kind = "value") => ~IsSymlink(last.out.val)

\* the canonical form of a candidate: relative to targetDir, "/" separated
CanonicalForm(P) ==
  Join(Split(PathRelative(platform, NameSegs(targetDir), PathResolve(platform, targetDir, P)),
             Seps(platform)), "/")
\* a filter entry with the host separator replaced by "/"
NormalizedEntry(f) == Join(Split(f, {PathSep(platform)}), "/")
\* the rule of the filter: no filter, or some entry is a prefix
Visible(P) ==
  \/ filterPaths = <<>>
  \/ \E i \in 1..Len(filterPaths) : StartsWith(CanonicalForm(P), NormalizedEntry(filterPaths[i]))

\* what the engine finds for the globs of the last operation, unfiltered
RawExpansion(globs, options) ==
  LET fixedGlobs == [i \in 1..Len(globs) |-> normalizePath(platform, globs[i])]
      found == Matched(fsys, targetDir, fixedGlobs, options).paths
  IN [i \in 1..Len(found) |-> PathString(found[i])]

RECURSIVE IsSubSeq(_, _)
IsSubSeq(a, b) ==
  IF a = <<>> THEN TRUE
  ELSE IF b = <<>> THEN FALSE
  ELSE IF Head(a) = Head(b) THEN IsSubSeq(Tail(a), Tail(b))
  ELSE IsSubSeq(a, Tail(b))

\* C4: shouldInclude is the prefix rule on canonical forms; glob and findAll
\* return the expansion with exactly the paths the rule rejects removed, in
\* the order of the expansion; findAllFiles returns a part of it in that
\* order; every path any discovery method returns passes shouldInclude.
C4_FilterIsPrefixRule ==
  /\ \A P \in Candidates :
       shouldInclude(platform, targetDir, filterPaths, P) <=> Visible(P)
  /\ last.op = "shouldInclude" => last.out = Value(Visible(last.arg))
  /\ last.op = "glob" =>
       last.out.val = SelectSeq(RawExpansion(last.arg[1], last.arg[2]), Visible)
  /\ last.op = "findAll" =>
       last.out.val = SelectSeq(RawExpansion(last.arg[1], [nocase |-> last.arg[2], nodir |-> FALSE]),
                                Visible)
  /\ last.op = "findAllFiles" =>
       IsSubSeq(last.out.val,
                SelectSeq(RawExpansion(last.arg[1], [nocase |-> last.arg[2], nodir |-> TRUE]),
                          Visible))
  /\ last.op \in {"glob", "findAll", "findAllFiles"} =>
       \A i \in 1..Len(last.out.val) :
         shouldInclude(platform, targetDir, filterPaths, last.out.val[i])
  /\ (last.op \in {"findFirst", "findFirstFile"} /\ last.out.kind = "value") =>
       shouldInclude(platform, targetDir, filterPaths, last.out.val)

\* findAll under a filter returned some of the expansion and dropped the rest
C4_Witness ==
  /\ last.op = "findAll"
  /\ filterPaths # <<>>
  /\ Len(last.out.val) > 0
  /\ Len(last.out.val) < Len(RawExpansion(last.arg[1], [nocase |-> last.arg[2], nodir |-> FALSE]))

----------------------------------------------------------------------------
\* Properties of the accessor under concurrent use.

\* the working state of a getFileLines call
Work(c) == <<call[c].leftOver, call[c].lines, call[c].lineNumber, call[c].pos>>

\* C10: no operation, in any interleaving, changes targetDir or filterPaths,
\* and the working state of a getFileLines call changes only in a step of
\* that call.
C10_ConfigurationImmutable ==
  [][/\ targetDir' = targetDir
     /\ filterPaths' = filterPaths
     /\ \A c \in CallIds :
          Work(c)' # Work(c) =>
            \/ GflRead(c)
            \/ \E rel \in AllPaths : GflOpen(c, rel, 1)]_vars

\* two calls are between chunk reads with different text left over, while
\* another operation has completed
C10_Witness ==
  /\ call[1].pc = "read" /\ call[2].pc = "read"
  /\ call[1].leftOver # call[2].leftOver
  /\ last.op = "removeFile"

====
